---------------------------- MODULE Spec2Model ----------------------------
(***************************************************************************)
(* A model of the solver SDK's message router (WakuTransport), its signer  *)
(* (signProposal / signPayload), the ProposalResponse schema and the       *)
(* SolverSDK facade.                                                       *)
(*                                                                         *)
(* Strings whose characters the code inspects (message types, the          *)
(* AVAILABLE_TYPES variable, private keys) are sequences of one-character  *)
(* strings.  Strings the code only passes on or tests for emptiness        *)
(* (replyTo, public keys, signerPubKey) are TLA+ strings.                  *)
(***************************************************************************)
EXTENDS Integers, Sequences, FiniteSets, TLC

\* Number of inbound events the transport delivers in one run.
MaxMsgs == 2

\* Number of WakuClient.start() calls in one run.
MaxStarts == 2

(***************************************************************************)
(* JavaScript values                                                       *)
(***************************************************************************)

\* undefined, for a value that is otherwise a sequence of characters
Undefined == <<"<undefined>">>

\* undefined, for a value that is otherwise an opaque string
NoString == "<undefined>"

\* JavaScript truthiness of an opaque string or undefined
Truthy(s) == s # NoString /\ s # ""

\* JavaScript truthiness of a character string or undefined
TruthyChars(s) == s # Undefined /\ s # <<>>

LowerCase == <<"a","b","c","d","e","f","g","h","i","j","k","l","m",
               "n","o","p","q","r","s","t","u","v","w","x","y","z">>

UpperCase == <<"A","B","C","D","E","F","G","H","I","J","K","L","M",
               "N","O","P","Q","R","S","T","U","V","W","X","Y","Z">>

\* String.prototype.toUpperCase on one character
UpperChar(c) ==
  IF \E i \in 1..Len(LowerCase) : LowerCase[i] = c
  THEN UpperCase[CHOOSE i \in 1..Len(LowerCase) : LowerCase[i] = c]
  ELSE c

\* String.prototype.toUpperCase
toUpperCase(s) == [i \in 1..Len(s) |-> UpperChar(s[i])]

RECURSIVE TrimStart(_)
TrimStart(s) ==
  IF s # <<>> /\ Head(s) = " " THEN TrimStart(Tail(s)) ELSE s

RECURSIVE TrimEnd(_)
TrimEnd(s) ==
  IF s # <<>> /\ s[Len(s)] = " " THEN TrimEnd(SubSeq(s, 1, Len(s) - 1)) ELSE s

\* String.prototype.trim
trim(s) == TrimEnd(TrimStart(s))

\* String.prototype.split(","): always at least one piece
RECURSIVE SplitFrom(_, _)
SplitFrom(s, cur) ==
  IF s = <<>> THEN <<cur>>
  ELSE IF Head(s) = "," THEN <<cur>> \o SplitFrom(Tail(s), <<>>)
  ELSE SplitFrom(Tail(s), Append(cur, Head(s)))

split(s) == SplitFrom(s, <<>>)

\* String.prototype.startsWith
startsWith(s, p) == Len(s) >= Len(p) /\ SubSeq(s, 1, Len(p)) = p

\* Array.prototype.includes
includes(arr, x) == \E i \in 1..Len(arr) : arr[i] = x

(***************************************************************************)
(* Keys                                                                    *)
(***************************************************************************)

EvmKey == <<"0","x","a","1">>

SolanaKey == <<"[","7","]">>

\* neither a hex private key nor a JSON array
MalformedKey == <<"k","e","y">>

\* "0x"-prefixed, but not hex
MalformedHexKey == <<"0","x","z">>

\* viem's privateKeyToAccount throws on anything else
WellFormedEvmKeys == {EvmKey}

\* JSON.parse / Keypair.fromSecretKey throw on anything else
WellFormedSolanaKeys == {SolanaKey}

(***************************************************************************)
(* The process environment read by the constructor                        *)
(***************************************************************************)

\* AVAILABLE_TYPES=" swap"
TypesSwap == <<" ","s","w","a","p">>

Environment(privateKey, encryptionKey, availableTypes) ==
  [SOLVER_PRIVATE_KEY |-> privateKey, WAKU_ENCRYPTION_PRIVATE_KEY |-> encryptionKey,
   AVAILABLE_TYPES |-> availableTypes]

\* the environments a run starts from: with and without an encryption key,
\* with and without a type list, each kind of private key, and the three
\* the constructor rejects
Environments ==
  { Environment(EvmKey, Undefined, Undefined),
    Environment(EvmKey, <<>>, TypesSwap),
    Environment(EvmKey, EvmKey, TypesSwap),
    Environment(SolanaKey, SolanaKey, TypesSwap),
    Environment(MalformedKey, MalformedKey, TypesSwap),
    Environment(MalformedHexKey, Undefined, TypesSwap),
    Environment(Undefined, Undefined, Undefined),
    Environment(<<>>, <<>>, Undefined),
    Environment(EvmKey, SolanaKey, Undefined) }

\* process.env.AVAILABLE_TYPES?.split(",")?.map(t => t.trim().toUpperCase()) || []
ParseAvailableTypes(v) ==
  IF v = Undefined THEN <<>>
  ELSE LET parts == split(v)
       IN [i \in 1..Len(parts) |-> toUpperCase(trim(parts[i]))]

\* SolverConfigSchema.parse: PRIVATE_KEY must be a string
SolverConfigSchemaOk(e) == e.SOLVER_PRIVATE_KEY # Undefined

\* mutant: the constructor without its comparison of the two keys
ConstructorOkKeysUncompared(e) ==
  /\ SolverConfigSchemaOk(e)
  /\ TruthyChars(e.SOLVER_PRIVATE_KEY)

\* the constructor's checks: schema, key present, keys equal
ConstructorOk(e) ==
  /\ SolverConfigSchemaOk(e)
  /\ TruthyChars(e.SOLVER_PRIVATE_KEY)
  /\ ~ ( TruthyChars(e.WAKU_ENCRYPTION_PRIVATE_KEY)
         /\ e.WAKU_ENCRYPTION_PRIVATE_KEY # e.SOLVER_PRIVATE_KEY )

\* this.config after a successful construction
ConfigOf(e) ==
  [ PRIVATE_KEY |-> e.SOLVER_PRIVATE_KEY,
    WAKU_ENCRYPTION_PRIVATE_KEY |-> e.WAKU_ENCRYPTION_PRIVATE_KEY,
    AVAILABLE_TYPES |-> ParseAvailableTypes(e.AVAILABLE_TYPES) ]

(***************************************************************************)
(* Proposals and the ProposalResponse schema                               *)
(***************************************************************************)

\* an optional field: undefined, or defined with a sequence as its value
NotDef == [def |-> FALSE, items |-> <<>>]

Def(items) == [def |-> TRUE, items |-> items]

\* A transaction object by the state of each field the schemas look at:
\* "ok" (present, of the declared type), "undefined", or "bad" (present, of
\* another type).  callData may also hold a BigInt, which z.any() accepts and
\* JSON.stringify rejects.
Tx(chainId, to, value, data, callData) ==
  [chainId |-> chainId, to |-> to, value |-> value, data |-> data, callData |-> callData]

GoodTx == Tx("ok", "ok", "ok", "ok", "undefined")

\* a transaction template: no value or data, instructions instead
GoodPartialTx == Tx("ok", "ok", "undefined", "undefined", "ok")

BigIntPartialTx == Tx("ok", "ok", "undefined", "undefined", "bigint")

BadTx == Tx("undefined", "ok", "ok", "ok", "undefined")

ProposalFields == <<"description", "titles", "calls", "transactions", "partialTransactions">>

Proposal(description, titles, calls, transactions, partialTransactions) ==
  [description |-> description, titles |-> titles, calls |-> calls,
   transactions |-> transactions, partialTransactions |-> partialTransactions]

\* the literal {}
EmptyObject == Proposal(NotDef, NotDef, NotDef, NotDef, NotDef)

\* TransactionSchema
TransactionSchemaOk(tx) ==
  /\ tx.chainId = "ok"
  /\ tx.to = "ok"
  /\ tx.value = "ok"
  /\ tx.data = "ok"

\* PartialTransactionSchema
PartialTransactionSchemaOk(tx) ==
  /\ tx.chainId = "ok"
  /\ tx.to = "ok"
  /\ tx.value \in {"ok", "undefined"}
  /\ tx.data \in {"ok", "undefined"}

\* mutant: the schema without its .refine()
ProposalRefinementMissing(p) == TRUE

\* the .refine() of ProposalResponseSchema
ProposalRefinementOk(p) ==
  \/ p.transactions.def /\ Len(p.transactions.items) > 0
  \/ p.partialTransactions.def /\ Len(p.partialTransactions.items) > 0

\* mutant: the schema with an optional description
ProposalResponseSchemaDescriptionOptional(p) ==
  /\ p.titles.def
  /\ p.calls.def
  /\ p.transactions.def =>
       \A i \in 1..Len(p.transactions.items) : TransactionSchemaOk(p.transactions.items[i])
  /\ p.partialTransactions.def =>
       \A i \in 1..Len(p.partialTransactions.items) :
          PartialTransactionSchemaOk(p.partialTransactions.items[i])
  /\ ProposalRefinementOk(p)

\* ProposalResponseSchema.parse(p) does not throw
ProposalResponseSchemaOk(p) ==
  /\ p.description.def
  /\ p.titles.def
  /\ p.calls.def
  /\ p.transactions.def =>
       \A i \in 1..Len(p.transactions.items) : TransactionSchemaOk(p.transactions.items[i])
  /\ p.partialTransactions.def =>
       \A i \in 1..Len(p.partialTransactions.items) :
          PartialTransactionSchemaOk(p.partialTransactions.items[i])
  /\ ProposalRefinementOk(p)

Descriptions == <<"description1", "description2", "description3", "description4">>

\* a transaction with a key TransactionSchema does not declare (callData);
\* z.object() accepts it and leaves the key out of what parse returns
ExtraKeyTx == Tx("ok", "ok", "ok", "ok", "ok")

\* the object ProposalResponseSchema.parse(p) returns for a p it accepts: a
\* copy of p without the keys the schemas do not declare
ProposalResponseSchemaParsed(p) ==
  [p EXCEPT !.transactions.items =
              [i \in 1..Len(p.transactions.items) |->
                 [p.transactions.items[i] EXCEPT !.callData = "undefined"]]]

\* one transaction, one title, one call; n tells the proposals apart, and
\* the transaction carries a key the schema does not declare
ValidTxProposal(n) ==
  Proposal(Def(<<Descriptions[n]>>), Def(<<"t1">>), Def(<<"c1">>), Def(<<ExtraKeyTx>>), NotDef)

ValidPartialProposal ==
  Proposal(Def(<<"d2">>), Def(<<>>), Def(<<>>), NotDef, Def(<<GoodPartialTx>>))

\* neither transactions nor partialTransactions
NoListsProposal ==
  Proposal(Def(<<"d3">>), Def(<<"t3">>), Def(<<"c3">>), NotDef, NotDef)

\* passes the schema, cannot be serialized
BigIntProposal ==
  Proposal(Def(<<"d4">>), Def(<<>>), Def(<<>>), NotDef, Def(<<BigIntPartialTx>>))

\* what the handler may resolve to, or throw, for the n-th event of a run
HandlerResults(n) ==
  { [kind |-> "null", value |-> EmptyObject],
    [kind |-> "throw", value |-> EmptyObject],
    [kind |-> "proposal", value |-> ValidTxProposal(n)],
    [kind |-> "proposal", value |-> NoListsProposal],
    [kind |-> "proposal", value |-> BigIntProposal] }

(***************************************************************************)
(* Signer                                                                  *)
(***************************************************************************)

\* JSON.stringify throws a TypeError on a BigInt
Serializable(p) ==
  \A f \in {"transactions", "partialTransactions"} :
    \A i \in 1..Len(p[f].items) : p[f].items[i].callData # "bigint"

\* JSON.stringify of an object: its defined fields in declaration order;
\* undefined fields are left out
RECURSIVE StringifyFrom(_, _)
StringifyFrom(p, i) ==
  IF i > Len(ProposalFields) THEN <<>>
  ELSE LET f == ProposalFields[i]
       IN (IF p[f].def THEN << <<f, p[f].items>> >> ELSE <<>>) \o StringifyFrom(p, i + 1)

JSONstringify(p) == StringifyFrom(p, 1)

NoSignature == [ok |-> FALSE, path |-> "none", signer |-> <<>>, signature |-> <<>>, message |-> <<>>]

\* privateKeyToAccount(key).address and account.signMessage({message})
signWithEvm(payloadString, privateKey) ==
  IF privateKey \in WellFormedEvmKeys
  THEN [ok |-> TRUE, path |-> "evm", signer |-> <<"address">> \o privateKey,
        signature |-> <<"hex">> \o privateKey, message |-> payloadString]
  ELSE [NoSignature EXCEPT !.path = "evm"]

\* Keypair.fromSecretKey(JSON.parse(key)), nacl.sign.detached, base64
signWithSolana(payloadString, privateKey) ==
  IF privateKey \in WellFormedSolanaKeys
  THEN [ok |-> TRUE, path |-> "solana", signer |-> <<"base58">> \o privateKey,
        signature |-> <<"base64">> \o privateKey, message |-> payloadString]
  ELSE [NoSignature EXCEPT !.path = "solana"]

\* mutant: the path chosen by what the key parses as, not by its prefix
signPayloadByKeyShape(payload, config) ==
  IF ~Serializable(payload) THEN NoSignature
  ELSE IF config.PRIVATE_KEY \in WellFormedEvmKeys
       THEN signWithEvm(JSONstringify(payload), config.PRIVATE_KEY)
       ELSE signWithSolana(JSONstringify(payload), config.PRIVATE_KEY)

\* signPayload(payload, config); ok = FALSE stands for a thrown exception
signPayload(payload, config) ==
  IF ~Serializable(payload) THEN NoSignature
  ELSE IF startsWith(config.PRIVATE_KEY, <<"0", "x">>)
       THEN signWithEvm(JSONstringify(payload), config.PRIVATE_KEY)
       ELSE signWithSolana(JSONstringify(payload), config.PRIVATE_KEY)

NoResponse == [some |-> FALSE, proposal |-> EmptyObject, signer |-> <<>>, signature |-> <<>>, message |-> <<>>]

\* signProposal(proposal, config) for a truthy proposal: the MessageResponse,
\* or null (some = FALSE) when signPayload throws
signProposal(proposal, config) ==
  LET s == signPayload(proposal, config)
  IN IF s.ok
     THEN [some |-> TRUE, proposal |-> proposal, signer |-> s.signer,
           signature |-> s.signature, message |-> s.message]
     ELSE NoResponse

(***************************************************************************)
(* The router: state                                                       *)
(***************************************************************************)

VARIABLES
  env,                \* process.env as the constructor reads it
  phase,              \* "new", "constructed", or "failed" (the constructor threw)
  config,             \* this.config
  encryptionEnabled,  \* this.encryptionEnabled
  initialized,        \* this.initialized
  waku,               \* this.waku: an index into clients, 0 for undefined
  clients,            \* every WakuClient started, with its subscriptions
  starts,             \* WakuClient.start() calls made
  initPending,        \* initialize() calls suspended at await WakuClient.start()
  stopPending,        \* stop() calls suspended at await this.waku.stop()
  lastCall,           \* how the latest initialize() or stop() call to end ended
  msgs,               \* one record per invocation of a subscription callback
  sends,              \* every waku.sendMessage call, in call order
  budget,             \* how many events and client starts this run may see
  applied,            \* a call of signProposal, signPayload or the schema on its own
  sdk                 \* the SolverSDK.start() calls made, with the handle each returned

vars == <<sdk, applied, budget, env, phase, config, encryptionEnabled, initialized, waku, clients,
          starts,
          initPending, stopPending, lastCall, msgs, sends>>

routerVars == <<sdk, applied, budget, env, phase, config, encryptionEnabled, initialized, waku,
                clients, starts,
                initPending, stopPending, lastCall>>

PublicKeys == <<"pk1", "pk2", "pk3", "pk4">>

ReplyTopics == <<"reply1", "reply2", "reply3", "reply4">>

PeerKeys == <<"peer1", "peer2", "peer3", "peer4">>

Swap == <<"s","w","a","p">>

Yield == <<"Y","I","E","L","D">>

\* the events a subscription may receive as the n-th event of a run: a type
\* in lower case, one in upper case or none; on the public channel with or
\* without replyTo; on the confidential channel with or without signerPubKey
Event(type, replyTo, signerPubKey) ==
  [type |-> type, replyTo |-> replyTo, signerPubKey |-> signerPubKey]

Events(channel, n) ==
  CASE channel = "public" ->
         { Event(Swap, ReplyTopics[n], NoString), Event(Yield, ReplyTopics[n], NoString),
           Event(Undefined, ReplyTopics[n], NoString), Event(Swap, "", NoString) }
    [] channel = "handshake" ->
         { Event(Swap, ReplyTopics[n], NoString), Event(Yield, ReplyTopics[n], NoString),
           Event(Undefined, ReplyTopics[n], NoString) }
    [] OTHER ->
         { Event(t, ReplyTopics[n], k) :
             t \in {Swap, Yield, Undefined}, k \in {NoString, PeerKeys[n]} }

NoConfig ==
  [PRIVATE_KEY |-> Undefined, WAKU_ENCRYPTION_PRIVATE_KEY |-> Undefined, AVAILABLE_TYPES |-> <<>>]

\* the three subscriptions, as subscribe() is called for them
PublicSubscription ==
  [channel |-> "public", topic |-> "", encrypted |-> FALSE, expiration |-> "default"]

HandshakeSubscription ==
  [channel |-> "handshake", topic |-> "handshake", encrypted |-> FALSE,
   expiration |-> "MAX_SAFE_INTEGER"]

ConfidentialSubscription(publicKey) ==
  [channel |-> "confidential", topic |-> publicKey, encrypted |-> TRUE,
   expiration |-> "24h"]

Channels == {"public", "handshake", "confidential"}

\* What a run may see.  Mixed runs: two events, on any channels, on one client
\* that is never stopped.  Channel runs: several events on one channel.
\* Lifecycle runs: several client starts and stop() calls, no event.  Restart
\* runs: one event, stop() calls, and one start after the first.
Budgets ==
  { [msgs |-> 2, starts |-> 1, stop |-> FALSE, channels |-> Channels],
    [msgs |-> MaxMsgs, starts |-> 1, stop |-> FALSE, channels |-> {"public"}],
    [msgs |-> MaxMsgs, starts |-> 1, stop |-> FALSE, channels |-> {"handshake"}],
    [msgs |-> MaxMsgs, starts |-> 1, stop |-> FALSE, channels |-> {"confidential"}],
    [msgs |-> 0, starts |-> MaxStarts, stop |-> TRUE, channels |-> {}],
    [msgs |-> 1, starts |-> 2, stop |-> TRUE, channels |-> Channels] }

\* the runs of environment e: channel runs on the public channel where only
\* that channel is subscribed, on the other two where encryption is enabled
BudgetsFor(e) ==
  { b \in Budgets :
      \/ b.channels \in {Channels, {}}
      \/ b.channels = {"public"} /\ ~TruthyChars(e.WAKU_ENCRYPTION_PRIVATE_KEY)
      \/ b.channels \in {{"handshake"}, {"confidential"}}
         /\ TruthyChars(e.WAKU_ENCRYPTION_PRIVATE_KEY) }

\* no call made on its own
NoCall ==
  [fn |-> "none", arg |-> [kind |-> "null", value |-> EmptyObject], key |-> <<>>,
   returned |-> "none", signerCalls |-> 0, path |-> "none", signed |-> NoResponse,
   logs |-> {}]

Init ==
  /\ env \in Environments
  /\ budget \in BudgetsFor(env)
  /\ applied = NoCall
  /\ sdk = <<>>
  /\ phase = "new"
  /\ config = NoConfig
  /\ encryptionEnabled = FALSE
  /\ initialized = FALSE
  /\ waku = 0
  /\ clients = <<>>
  /\ starts = 0
  /\ initPending = 0
  /\ stopPending = 0
  /\ lastCall = "none"
  /\ msgs = <<>>
  /\ sends = <<>>

(***************************************************************************)
(* Construction and lifecycle                                              *)
(***************************************************************************)

\* new WakuTransport(handleMessage, logger)
Construct ==
  /\ phase = "new"
  /\ IF ConstructorOk(env)
     THEN /\ phase' = "constructed"
          /\ config' = ConfigOf(env)
          /\ encryptionEnabled' = TruthyChars(env.WAKU_ENCRYPTION_PRIVATE_KEY)
     ELSE /\ phase' = "failed"
          /\ UNCHANGED <<config, encryptionEnabled>>
  /\ UNCHANGED <<sdk, applied, budget, env, initialized, waku, clients, starts, initPending, stopPending,
                 lastCall, msgs, sends>>

\* the guard of initialize(): does a call go on to start a client?
InitializeProceeds == ~initialized

\* initialize(), up to await WakuClient.start()
InitializeCall ==
  /\ phase = "constructed"
  /\ IF InitializeProceeds
     THEN /\ starts < budget.starts
          /\ starts' = starts + 1
          /\ initPending' = initPending + 1
          /\ UNCHANGED lastCall
     ELSE /\ lastCall' = "initialize:noop"
          /\ UNCHANGED <<starts, initPending>>
  /\ UNCHANGED <<sdk, applied, budget, env, phase, config, encryptionEnabled, initialized, waku, clients,
                 stopPending, msgs, sends>>

InitSteps == <<"start", "setLogger", "public", "handshake", "confidential", "none">>

StepIndex(step) == CHOOSE i \in 1..Len(InitSteps) : InitSteps[i] = step

\* the steps of initialize() that run when the one at failAt throws
Reached(step, failAt) == StepIndex(step) < StepIndex(failAt)

\* mutant: the handshake and confidential subscriptions without their
\* encryptionEnabled guard
SubscriptionsInstalledUnguarded(failAt, publicKey) ==
  (IF Reached("public", failAt) THEN <<PublicSubscription>> ELSE <<>>)
  \o (IF Reached("handshake", failAt) THEN <<HandshakeSubscription>> ELSE <<>>)
  \o (IF Reached("confidential", failAt)
      THEN <<ConfidentialSubscription(publicKey)>> ELSE <<>>)

\* subscribeToPublicMessages, subscribeToHandshakeMessages and
\* subscribeToConfidentialMessages, cut short by a throw at failAt
SubscriptionsInstalled(failAt, publicKey) ==
  (IF Reached("public", failAt) THEN <<PublicSubscription>> ELSE <<>>)
  \o (IF encryptionEnabled /\ Reached("handshake", failAt)
      THEN <<HandshakeSubscription>> ELSE <<>>)
  \o (IF encryptionEnabled /\ Reached("confidential", failAt)
      THEN <<ConfidentialSubscription(publicKey)>> ELSE <<>>)

\* initialize(), from the resumption of await WakuClient.start() to its end
InitializeResume ==
  /\ initPending > 0
  /\ initPending' = initPending - 1
  /\ \E failAt \in {InitSteps[i] : i \in 1..Len(InitSteps)} :
       /\ failAt \in {"handshake", "confidential"} => encryptionEnabled
       /\ IF failAt = "start"
          THEN UNCHANGED <<waku, clients>>
          ELSE \E pk \in {NoString, PublicKeys[Len(clients) + 1]} :
                 /\ clients' = Append(clients,
                                 [running |-> TRUE, publicKey |-> pk,
                                  subs |-> SubscriptionsInstalled(failAt, pk)])
                 /\ waku' = Len(clients) + 1
       /\ initialized' = IF failAt = "none" THEN TRUE ELSE initialized
       /\ lastCall' = IF failAt = "none" THEN "initialize:ok" ELSE "initialize:threw"
  /\ UNCHANGED <<sdk, applied, budget, env, phase, config, encryptionEnabled, starts, stopPending,
                 msgs, sends>>

\* the transport client's own public key becomes available
PublicKeyReady ==
  \E c \in 1..Len(clients) :
    /\ clients[c].running
    /\ clients[c].publicKey = NoString
    /\ clients' = [clients EXCEPT ![c].publicKey = PublicKeys[c]]
    /\ UNCHANGED <<sdk, applied, budget, env, phase, config, encryptionEnabled, initialized, waku, starts,
                   initPending, stopPending, lastCall, msgs, sends>>

\* stop(), up to await this.waku!.stop()
StopCall ==
  /\ phase = "constructed"
  /\ budget.stop
  /\ IF waku = 0
     THEN /\ lastCall' = "stop:threw"
          /\ UNCHANGED <<clients, stopPending>>
     ELSE /\ clients[waku].running
          /\ clients' = [clients EXCEPT ![waku].running = FALSE]
          /\ stopPending' = stopPending + 1
          /\ UNCHANGED lastCall
  /\ UNCHANGED <<sdk, applied, budget, env, phase, config, encryptionEnabled, initialized, waku, starts,
                 initPending, msgs, sends>>

\* mutant: stop() ends the callbacks that are suspended when it returns
StopReturnCancels ==
  /\ stopPending > 0
  /\ stopPending' = stopPending - 1
  /\ initialized' = FALSE
  /\ lastCall' = "stop:ok"
  /\ msgs' = [i \in 1..Len(msgs) |->
                IF msgs[i].pc \in {"handler", "sign", "send"}
                THEN [msgs[i] EXCEPT !.pc = "done"] ELSE msgs[i]]
  /\ UNCHANGED <<sdk, applied, budget, env, phase, config, encryptionEnabled, waku, clients, starts,
                 initPending, sends>>

\* stop(), after the await
StopReturn ==
  /\ stopPending > 0
  /\ stopPending' = stopPending - 1
  /\ initialized' = FALSE
  /\ lastCall' = "stop:ok"
  /\ UNCHANGED <<sdk, applied, budget, env, phase, config, encryptionEnabled, waku, clients, starts,
                 initPending, msgs, sends>>

(***************************************************************************)
(* The per-message pipeline                                                *)
(***************************************************************************)

\* mutant: the type compared as received, not in upper case
validateMessageTypeCaseSensitive(type) ==
  IF Len(config.AVAILABLE_TYPES) = 0 THEN "true"
  ELSE IF type = Undefined THEN "threw"
  ELSE IF includes(config.AVAILABLE_TYPES, type) THEN "true"
  ELSE "false"

\* validateMessageType(event): "true", "false", or "threw" (toUpperCase of an
\* undefined body.type)
validateMessageType(type) ==
  IF Len(config.AVAILABLE_TYPES) = 0 THEN "true"
  ELSE IF type = Undefined THEN "threw"
  ELSE IF includes(config.AVAILABLE_TYPES, toUpperCase(type)) THEN "true"
  ELSE "false"

\* the confidential callback's first check: !event.body.signerPubKey
MissingSignerPubKey(signerPubKey) == ~Truthy(signerPubKey)

\* An invocation of a subscription callback.  pc is where it is suspended:
\* "handler" (await handleMessage), "sign" (await signProposal / signPayload),
\* "send" (await sendMessage), or ended: "done" (resolved), "rejected".
NewMessage(channel, client, type, replyTo, signerPubKey) ==
  [channel |-> channel, client |-> client, type |-> type, replyTo |-> replyTo,
   signerPubKey |-> signerPubKey, pc |-> "done", filter |-> "skipped",
   handlerCalls |-> 0, result |-> [kind |-> "none", value |-> EmptyObject],
   validated |-> "none", signCalls |-> 0, signed |-> NoResponse, logs |-> {"info:received"}]

\* the handshake callback's try block, up to await signPayload({}, config)
HandshakeSign(m) ==
  LET s == signPayload(EmptyObject, config)
  IN [m EXCEPT !.pc = "sign", !.signCalls = 1,
               !.signed = [some |-> s.ok, proposal |-> EmptyObject, signer |-> s.signer,
                           signature |-> s.signature, message |-> s.message]]

\* mutant: the handshake callback signs whatever the type filter says
AfterFilterHandshakeUnfiltered(m) ==
  LET f == validateMessageType(m.type)
  IN CASE m.channel = "handshake" /\ f # "threw" -> HandshakeSign([m EXCEPT !.filter = f])
       [] f = "threw" -> [m EXCEPT !.filter = f, !.pc = "rejected"]
       [] f = "false" -> [m EXCEPT !.filter = f, !.logs = @ \cup {"warn:type"}]
       [] OTHER -> [m EXCEPT !.filter = f, !.pc = "handler", !.handlerCalls = 1]

\* the type filter and what follows it, up to the first await
AfterFilter(m) ==
  LET f == validateMessageType(m.type)
  IN CASE f = "threw" -> [m EXCEPT !.filter = f, !.pc = "rejected"]
       [] f = "false" -> [m EXCEPT !.filter = f, !.logs = @ \cup {"warn:type"}]
       [] OTHER -> IF m.channel = "handshake"
                   THEN HandshakeSign([m EXCEPT !.filter = f])
                   ELSE [m EXCEPT !.filter = f, !.pc = "handler", !.handlerCalls = 1]

\* mutant: the confidential callback looks at the type before signerPubKey
ReceiveFilterFirst(m) ==
  LET f == validateMessageType(m.type)
  IN IF f = "true" /\ m.channel = "confidential" /\ MissingSignerPubKey(m.signerPubKey)
     THEN [m EXCEPT !.filter = f, !.logs = @ \cup {"error:signerPubKey"}]
     ELSE AfterFilter(m)

\* a subscription callback, from its invocation to its first await
Receive(m) ==
  IF m.channel = "confidential" /\ MissingSignerPubKey(m.signerPubKey)
  THEN [m EXCEPT !.logs = @ \cup {"error:signerPubKey"}]
  ELSE AfterFilter(m)

\* the transport invokes the callback of subscription k of client c
Deliver ==
  /\ Len(msgs) < budget.msgs
  /\ \E c \in 1..Len(clients) :
       /\ clients[c].running
       /\ \E k \in 1..Len(clients[c].subs) :
            /\ clients[c].subs[k].channel \in budget.channels
            /\ \E e \in Events(clients[c].subs[k].channel, Len(msgs) + 1) :
              msgs' = Append(msgs,
                        Receive(NewMessage(clients[c].subs[k].channel, c, e.type,
                                           e.replyTo, e.signerPubKey)))
  /\ UNCHANGED <<routerVars, sends>>

\* buildResponse when the handler resolved to null: return null, and the
\* callback logs and returns
HandlerNull(m, r) ==
  [m EXCEPT !.result = r, !.pc = "done", !.logs = @ \cup {"info:noResponse"}]

\* buildResponse when the handler threw: the catch block, and the callback
\* logs and returns
HandlerThrew(m, r) ==
  [m EXCEPT !.result = r, !.pc = "done",
            !.logs = @ \cup {"error:build", "console:build", "info:noResponse"}]

\* mutant: the proposal is signed whether or not it passed the schema
HandlerProposalUnvalidated(m, r) ==
  LET signed == signProposal(r.value, config)
  IN [m EXCEPT !.result = r,
               !.validated = IF ProposalResponseSchemaOk(r.value) THEN "ok" ELSE "failed",
               !.pc = "sign", !.signCalls = 1, !.signed = signed,
               !.logs = IF signed.some THEN @ ELSE @ \cup {"console:signing"}]

\* mutant: the copy returned by parse is what gets signed and sent
HandlerProposalSignsParsed(m, r) ==
  IF ProposalResponseSchemaOk(r.value)
  THEN LET signed == signProposal(ProposalResponseSchemaParsed(r.value), config)
       IN [m EXCEPT !.result = r, !.validated = "ok", !.pc = "sign",
                    !.signCalls = 1, !.signed = signed,
                    !.logs = IF signed.some THEN @ ELSE @ \cup {"console:signing"}]
  ELSE [m EXCEPT !.result = r, !.validated = "failed", !.pc = "done",
                 !.logs = @ \cup {"error:build", "warn:invalid", "info:noResponse"}]

\* buildResponse when the handler resolved to a proposal: parse it, then
\* call signProposal; a ZodError ends in the catch block
HandlerProposal(m, r) ==
  IF ProposalResponseSchemaOk(r.value)
  THEN LET signed == signProposal(r.value, config)
       IN [m EXCEPT !.result = r, !.validated = "ok", !.pc = "sign",
                    !.signCalls = 1, !.signed = signed,
                    !.logs = IF signed.some THEN @ ELSE @ \cup {"console:signing"}]
  ELSE [m EXCEPT !.result = r, !.validated = "failed", !.pc = "done",
                 !.logs = @ \cup {"error:build", "warn:invalid", "info:noResponse"}]

\* mutant: a null result is signed and sent like a proposal
AfterHandlerNullUnchecked(m, r) ==
  CASE r.kind = "null" ->
         [m EXCEPT !.result = r, !.pc = "sign", !.signCalls = 1,
                   !.signed = signProposal(EmptyObject, config)]
    [] r.kind = "throw" -> HandlerThrew(m, r)
    [] OTHER -> HandlerProposal(m, r)

\* mutant: buildResponse without its try/catch around the handler call
AfterHandlerThrowEscapes(m, r) ==
  CASE r.kind = "null" -> HandlerNull(m, r)
    [] r.kind = "throw" -> [m EXCEPT !.result = r, !.pc = "rejected"]
    [] OTHER -> HandlerProposal(m, r)

\* buildResponse(event), from the resumption of await handleMessage(event)
\* to await signProposal, and on to the end of the callback when
\* buildResponse returns null
AfterHandler(m, r) ==
  CASE r.kind = "null" -> HandlerNull(m, r)
    [] r.kind = "throw" -> HandlerThrew(m, r)
    [] OTHER -> HandlerProposal(m, r)

\* the handler's promise settles
HandlerReturns ==
  \E i \in 1..Len(msgs) :
   \E r \in HandlerResults(i) :
    /\ msgs[i].pc = "handler"
    /\ msgs' = [msgs EXCEPT ![i] = AfterHandler(msgs[i], r)]
    /\ UNCHANGED <<routerVars, sends>>

\* waku.sendMessage(body, topic, sender, recipient) made for message i on the
\* current client.  The body is a MessageResponse {proposal, signer,
\* signature} (kind "response") or a handshake acknowledgment {signer,
\* signature, signerPubKey} (kind "ack"); signed is what the signature is over.
SendMessage(i, m, kind, signerPubKey, sender, recipient) ==
  [msg |-> i, client |-> waku, kind |-> kind,
   proposal |-> IF kind = "response" THEN m.signed.proposal ELSE EmptyObject,
   signer |-> m.signed.signer, signature |-> m.signed.signature,
   signed |-> m.signed.message, signerPubKey |-> signerPubKey,
   topic |-> m.replyTo, sender |-> sender, recipient |-> recipient]

\* mutant: the public response is sent with the own public key as sender
SendCallPublicFromOwnKey(i, m) ==
  CASE m.channel = "public" ->
         SendMessage(i, m, "response", NoString, clients[waku].publicKey, NoString)
    [] m.channel = "confidential" ->
         SendMessage(i, m, "response", NoString, clients[waku].publicKey, m.signerPubKey)
    [] OTHER ->
         SendMessage(i, m, "ack", clients[waku].publicKey, clients[waku].publicKey, NoString)

\* mutant: the confidential response is sent without a recipient key
SendCallConfidentialUnencrypted(i, m) ==
  CASE m.channel = "public" ->
         SendMessage(i, m, "response", NoString, m.replyTo, NoString)
    [] m.channel = "confidential" ->
         SendMessage(i, m, "response", NoString, clients[waku].publicKey, NoString)
    [] OTHER ->
         SendMessage(i, m, "ack", clients[waku].publicKey, clients[waku].publicKey, NoString)

\* mutant: the acknowledgment is addressed like a public response
SendCallAckFromReplyTo(i, m) ==
  CASE m.channel = "public" ->
         SendMessage(i, m, "response", NoString, m.replyTo, NoString)
    [] m.channel = "confidential" ->
         SendMessage(i, m, "response", NoString, clients[waku].publicKey, m.signerPubKey)
    [] OTHER ->
         SendMessage(i, m, "ack", clients[waku].publicKey, m.replyTo, NoString)

\* mutant: the callbacks share one slot for the event being answered, so a
\* send carries what belongs to the message that arrived last
SendCallLatestEvent(i, m) ==
  LET last == msgs[Len(msgs)]
  IN CASE m.channel = "public" ->
            SendMessage(i, last, "response", NoString, last.replyTo, NoString)
       [] m.channel = "confidential" ->
            SendMessage(i, last, "response", NoString, clients[waku].publicKey,
                        last.signerPubKey)
       [] OTHER ->
            SendMessage(i, last, "ack", clients[waku].publicKey, clients[waku].publicKey,
                        NoString)

\* the waku.sendMessage call of message i, as the callback of its channel makes it
SendCall(i, m) ==
  CASE m.channel = "public" ->
         SendMessage(i, m, "response", NoString, m.replyTo, NoString)
    [] m.channel = "confidential" ->
         SendMessage(i, m, "response", NoString, clients[waku].publicKey, m.signerPubKey)
    [] OTHER ->
         SendMessage(i, m, "ack", clients[waku].publicKey, clients[waku].publicKey, NoString)

\* mutant: every response is sent, whatever replyTo and the public key are
WillSendAlways(m) == m.signed.some

\* mutant: the handshake and confidential callbacks send without looking at
\* the own public key
WillSendKeyUnchecked(m) ==
  /\ m.signed.some
  /\ m.channel = "public" => Truthy(m.replyTo)

\* does the callback go on to call sendMessage once signing has settled?
WillSend(m) ==
  /\ m.signed.some
  /\ CASE m.channel = "public" -> Truthy(m.replyTo)
       [] OTHER -> Truthy(clients[waku].publicKey)

\* the callback's log calls between the settling of the signature and its
\* return or its sendMessage call
AfterSignLogs(m) ==
  CASE ~m.signed.some ->
         IF m.channel = "handshake" THEN {"error:handshake"} ELSE {"info:noResponse"}
    [] m.channel = "public" ->
         IF Truthy(m.replyTo) THEN {"info:sending"} ELSE {}
    [] m.channel = "confidential" ->
         IF Truthy(clients[waku].publicKey)
         THEN {"info:sending"} ELSE {"info:sending", "error:noPublicKey"}
    [] OTHER ->
         IF Truthy(clients[waku].publicKey)
         THEN {"info:sending"} ELSE {"error:noPublicKey"}

\* mutant: the callbacks are served one after the other, a callback resumes
\* only when those of the earlier messages have ended
SignReturnsInArrivalOrder ==
  \E i \in 1..Len(msgs) :
    /\ msgs[i].pc = "sign"
    /\ \A j \in 1..(i - 1) : msgs[j].pc \in {"done", "rejected"}
    /\ LET m == msgs[i]
           send == WillSend(m)
       IN /\ msgs' = [msgs EXCEPT ![i].pc = IF send THEN "send" ELSE "done",
                                  ![i].logs = @ \cup AfterSignLogs(m)]
          /\ sends' = IF send THEN Append(sends, SendCall(i, m)) ELSE sends
    /\ UNCHANGED routerVars

\* the callback, from the settling of signProposal / signPayload to await sendMessage
SignReturns ==
  \E i \in 1..Len(msgs) :
    /\ msgs[i].pc = "sign"
    /\ LET m == msgs[i]
           send == WillSend(m)
       IN /\ msgs' = [msgs EXCEPT ![i].pc = IF send THEN "send" ELSE "done",
                                  ![i].logs = @ \cup AfterSignLogs(m)]
          /\ sends' = IF send THEN Append(sends, SendCall(i, m)) ELSE sends
    /\ UNCHANGED routerVars

\* mutant: a failed send starts the pipeline of the message again
AfterSendRetries(m, ok) ==
  IF ok THEN [m EXCEPT !.pc = "done"]
  ELSE IF m.channel = "handshake"
       THEN [m EXCEPT !.pc = "done", !.logs = @ \cup {"error:handshake"}]
       ELSE [m EXCEPT !.pc = "handler", !.handlerCalls = @ + 1]

\* the callback, from the settling of sendMessage to its end; a rejected send
\* is caught on the handshake channel only
AfterSend(m, ok) ==
  IF ok THEN [m EXCEPT !.pc = "done"]
  ELSE IF m.channel = "handshake"
       THEN [m EXCEPT !.pc = "done", !.logs = @ \cup {"error:handshake"}]
       ELSE [m EXCEPT !.pc = "rejected"]

SendReturns ==
  \E i \in 1..Len(msgs), ok \in BOOLEAN :
    /\ msgs[i].pc = "send"
    /\ msgs' = [msgs EXCEPT ![i] = AfterSend(msgs[i], ok)]
    /\ UNCHANGED <<routerVars, sends>>

Next ==
  \/ Construct
  \/ InitializeCall
  \/ InitializeResume
  \/ PublicKeyReady
  \/ StopCall
  \/ StopReturn
  \/ Deliver
  \/ HandlerReturns
  \/ SignReturns
  \/ SendReturns

Spec == Init /\ [][Next]_vars

(***************************************************************************)
(* The router with the scheduling of the event loop                        *)
(***************************************************************************)

\* a run of one router that is started once and never stopped, with two
\* events on any of its channels
LiveBudget == [msgs |-> 2, starts |-> 1, stop |-> FALSE, channels |-> Channels]

LiveInit == Init /\ budget = LiveBudget

LiveNext ==
  \/ Construct
  \/ InitializeCall
  \/ InitializeResume
  \/ PublicKeyReady
  \/ Deliver
  \/ HandlerReturns
  \/ SignReturns
  \/ SendReturns

\* The continuation of a settled promise is run by the event loop:
\* signProposal and signPayload always settle, and a sendMessage call is taken
\* to settle.  Nothing makes a handler settle, and nothing makes the
\* environment call or deliver.
LiveSpec ==
  /\ LiveInit
  /\ [][LiveNext]_vars
  /\ WF_vars(SignReturns)
  /\ WF_vars(SendReturns)

(***************************************************************************)
(* The signer and the schema called on their own                           *)
(***************************************************************************)

\* the keys a call is made with: the four of the environments, an upper-case
\* prefix, a lone "0", a prefix further in, and the empty string
KeysOnTheirOwn ==
  { EvmKey, SolanaKey, MalformedKey, MalformedHexKey, <<"0","X","a","1">>, <<"0">>,
    <<"[","0","x","]">>, <<>> }

\* the values a call is made with: every combination of a missing, empty or
\* filled field
ProposalsOnTheirOwn ==
  { Proposal(d, t, c, tx, ptx) :
      d \in {NotDef, Def(<<"d">>)},
      t \in {NotDef, Def(<<>>), Def(<<"t1">>)},
      c \in {NotDef, Def(<<>>)},
      tx \in {NotDef, Def(<<>>), Def(<<GoodTx>>), Def(<<GoodTx, BadTx>>)},
      ptx \in {NotDef, Def(<<>>), Def(<<GoodPartialTx>>), Def(<<BigIntPartialTx>>)} }

ArgsOnTheirOwn ==
  {[kind |-> "null", value |-> EmptyObject]}
  \cup {[kind |-> "proposal", value |-> p] : p \in ProposalsOnTheirOwn}

\* mutant: signProposal without its try/catch
signProposalCallUncaught(arg, cfg) ==
  IF arg.kind = "null"
  THEN [returned |-> "null", signerCalls |-> 0, path |-> "none", signed |-> NoResponse,
        logs |-> {}]
  ELSE LET s == signPayload(arg.value, cfg)
           r == signProposal(arg.value, cfg)
       IN [returned |-> IF r.some THEN "response" ELSE "threw", signerCalls |-> 1,
           path |-> s.path, signed |-> r, logs |-> {}]

\* signProposal(proposal, config) as a whole: what it returns ("null" or
\* "response"; "threw" would be an exception), how often it called
\* signPayload, and what it logged
signProposalCall(arg, cfg) ==
  IF arg.kind = "null"
  THEN [returned |-> "null", signerCalls |-> 0, path |-> "none", signed |-> NoResponse,
        logs |-> {}]
  ELSE LET s == signPayload(arg.value, cfg)
           r == signProposal(arg.value, cfg)
       IN [returned |-> IF r.some THEN "response" ELSE "null", signerCalls |-> 1,
           path |-> s.path, signed |-> r,
           logs |-> IF r.some THEN {} ELSE {"console:signing"}]

\* signPayload(payload, config) as a whole: "signature", or "threw"
signPayloadCall(arg, cfg) ==
  LET s == signPayload(arg.value, cfg)
  IN [returned |-> IF s.ok THEN "signature" ELSE "threw", signerCalls |-> 1,
      path |-> s.path,
      signed |-> [some |-> s.ok, proposal |-> arg.value, signer |-> s.signer,
                  signature |-> s.signature, message |-> s.message],
      logs |-> {}]

\* ProposalResponseSchema.parse(value): "ok", or "threw" (a ZodError)
parseCall(arg) ==
  [returned |-> IF ProposalResponseSchemaOk(arg.value) THEN "ok" ELSE "threw",
   signerCalls |-> 0, path |-> "none", signed |-> NoResponse, logs |-> {}]

Made(fn, r) ==
  [applied EXCEPT !.fn = fn, !.returned = r.returned, !.signerCalls = r.signerCalls,
               !.path = r.path, !.signed = r.signed, !.logs = r.logs]

FunctionInit ==
  /\ env = Environment(Undefined, Undefined, Undefined)
  /\ budget = [msgs |-> 0, starts |-> 0, stop |-> FALSE, channels |-> {}]
  /\ sdk = <<>>
  /\ applied \in {[NoCall EXCEPT !.arg = a, !.key = k] :
                    a \in ArgsOnTheirOwn, k \in KeysOnTheirOwn}
  /\ phase = "new"
  /\ config = NoConfig
  /\ encryptionEnabled = FALSE
  /\ initialized = FALSE
  /\ waku = 0
  /\ clients = <<>>
  /\ starts = 0
  /\ initPending = 0
  /\ stopPending = 0
  /\ lastCall = "none"
  /\ msgs = <<>>
  /\ sends = <<>>

routerState ==
  <<budget, env, phase, config, encryptionEnabled, initialized, waku, clients, starts,
    initPending, stopPending, lastCall, msgs, sends>>

CallSignProposal ==
  /\ applied.fn = "none"
  /\ applied' = Made("signProposal",
                     signProposalCall(applied.arg, [PRIVATE_KEY |-> applied.key]))
  /\ UNCHANGED <<sdk, routerState>>

CallSignPayload ==
  /\ applied.fn = "none"
  /\ applied.arg.kind = "proposal"
  /\ applied' = Made("signPayload",
                     signPayloadCall(applied.arg, [PRIVATE_KEY |-> applied.key]))
  /\ UNCHANGED <<sdk, routerState>>

CallParse ==
  /\ applied.fn = "none"
  /\ applied.arg.kind = "proposal"
  /\ applied' = Made("parse", parseCall(applied.arg))
  /\ UNCHANGED <<sdk, routerState>>

FunctionNext ==
  \/ CallSignProposal
  \/ CallSignPayload
  \/ CallParse

FunctionSpec == FunctionInit /\ [][FunctionNext]_vars

(***************************************************************************)
(* The SolverSDK facade over a transport that starts and stops             *)
(***************************************************************************)

\* Number of SolverSDK.start() calls in one run.
MaxSdkStarts == 2

\* Number of stop() calls on one handle.
MaxSdkStops == 2

\* the handler functions a caller may pass
Handlers == {"handleFn1", "handleFn2"}

\* A SolverSDK.start(handleFn) call: the WakuTransport.start calls it made
\* (the handler each was given), the state of the transport's start promise,
\* what the call returned, the stop() calls made on its handle, the
\* wakuService.stop() calls these made, and how many of them are pending.
SdkCall(handleFn) ==
  [handler |-> handleFn, transportStarts |-> <<handleFn>>, transport |-> "starting",
   returned |-> "pending", stops |-> 0, transportStops |-> 0, stopsPending |-> 0]

FacadeInit ==
  /\ env = Environment(Undefined, Undefined, Undefined)
  /\ budget = [msgs |-> 0, starts |-> 0, stop |-> FALSE, channels |-> {}]
  /\ applied = NoCall
  /\ sdk = <<>>
  /\ phase = "new"
  /\ config = NoConfig
  /\ encryptionEnabled = FALSE
  /\ initialized = FALSE
  /\ waku = 0
  /\ clients = <<>>
  /\ starts = 0
  /\ initPending = 0
  /\ stopPending = 0
  /\ lastCall = "none"
  /\ msgs = <<>>
  /\ sends = <<>>

\* SolverSDK.start(handleFn), up to await WakuTransport.start(handleFn, logger)
SdkStart ==
  /\ Len(sdk) < MaxSdkStarts
  /\ \E h \in Handlers : sdk' = Append(sdk, SdkCall(h))
  /\ UNCHANGED <<applied, routerState>>

\* the promise of WakuTransport.start settles: the transport is constructed
\* and initialized, or its constructor or initialize() threw
TransportStartSettles ==
  \E c \in 1..Len(sdk), ok \in BOOLEAN :
    /\ sdk[c].transport = "starting"
    /\ sdk' = [sdk EXCEPT ![c].transport = IF ok THEN "started" ELSE "failed"]
    /\ UNCHANGED <<applied, routerState>>

\* mutant: start() does not await WakuTransport.start
StartResumesAtOnce(call) == TRUE

\* may start() resume after its await?
StartResumes(call) == call.transport # "starting"

\* SolverSDK.start, from the resumption of its await to its end: return new
\* SolverSDK(wakuService), or the rejection of WakuTransport.start passed on
SdkStartReturns ==
  \E c \in 1..Len(sdk) :
    /\ sdk[c].returned = "pending"
    /\ StartResumes(sdk[c])
    /\ sdk' = [sdk EXCEPT ![c].returned =
                            IF sdk[c].transport = "failed" THEN "threw" ELSE "handle"]
    /\ UNCHANGED <<applied, routerState>>

\* handle.stop(), up to await this.wakuService.stop()
SdkStop ==
  \E c \in 1..Len(sdk) :
    /\ sdk[c].returned = "handle"
    /\ sdk[c].stops < MaxSdkStops
    /\ sdk' = [sdk EXCEPT ![c].stops = @ + 1, ![c].transportStops = @ + 1,
                          ![c].stopsPending = @ + 1]
    /\ UNCHANGED <<applied, routerState>>

\* handle.stop(), after the await: it returns, or the rejection is passed on
SdkStopReturns ==
  \E c \in 1..Len(sdk) :
    /\ sdk[c].stopsPending > 0
    /\ sdk' = [sdk EXCEPT ![c].stopsPending = @ - 1]
    /\ UNCHANGED <<applied, routerState>>

FacadeNext ==
  \/ SdkStart
  \/ TransportStartSettles
  \/ SdkStartReturns
  \/ SdkStop
  \/ SdkStopReturns

FacadeSpec == FacadeInit /\ [][FacadeNext]_vars

(***************************************************************************)
(* Vocabulary of the properties                                            *)
(***************************************************************************)

\* the sendMessage calls made for message i
SendsOf(i) == {k \in 1..Len(sends) : sends[k].msg = i}

\* the callback of message i has got past the settling of the signature
PastSigning(m) == m.pc \in {"send", "done", "rejected"} /\ m.signCalls = 1

\* the type list holds exactly SWAP
OnlySwapAvailable == config.AVAILABLE_TYPES = << <<"S","W","A","P">> >>

\* the subscriptions of channel ch on the clients that are running
ActiveSubscriptions(ch) ==
  {ck \in (1..Len(clients)) \X (1..3) :
     /\ clients[ck[1]].running
     /\ ck[2] <= Len(clients[ck[1]].subs)
     /\ clients[ck[1]].subs[ck[2]].channel = ch}

(***************************************************************************)
(* C1  Public channel, success path: a public message that passes the type *)
(* filter, whose handler returns a proposal that passes validation, whose  *)
(* signing succeeds and whose replyTo is non-empty gets exactly one        *)
(* sendMessage call, made once signing has settled: to replyTo, with       *)
(* replyTo as the sender argument, with no recipient key, carrying         *)
(* {proposal, signer, signature}; before that, none.                       *)
(***************************************************************************)
C1_PublicSuccessSendsOnce ==
  \A i \in 1..Len(msgs) :
    LET m == msgs[i]
    IN ( /\ m.channel = "public"
         /\ m.filter = "true"
         /\ m.result.kind = "proposal"
         /\ m.validated = "ok"
         /\ m.signed.some
         /\ m.replyTo # "" /\ m.replyTo # NoString )
       => IF PastSigning(m)
          THEN /\ Cardinality(SendsOf(i)) = 1
               /\ \A k \in SendsOf(i) :
                    /\ sends[k].topic = m.replyTo
                    /\ sends[k].sender = m.replyTo
                    /\ sends[k].recipient = NoString
                    /\ sends[k].kind = "response"
                    /\ sends[k].proposal = m.result.value
                    /\ sends[k].signer = m.signed.signer
                    /\ sends[k].signature = m.signed.signature
          ELSE SendsOf(i) = {}

C1_Witness ==
  \E i \in 1..Len(msgs) :
    /\ msgs[i].channel = "public"
    /\ msgs[i].validated = "ok"
    /\ msgs[i].signed.some
    /\ msgs[i].replyTo = ReplyTopics[i]
    /\ msgs[i].pc = "done"
    /\ SendsOf(i) # {}

(***************************************************************************)
(* C2  On the public and confidential channels, a message whose handler    *)
(* returned null never gets a sendMessage call, and its callback ends      *)
(* without an exception.                                                   *)
(***************************************************************************)
C2_NullResultSendsNothing ==
  \A i \in 1..Len(msgs) :
    ( msgs[i].channel \in {"public", "confidential"} /\ msgs[i].result.kind = "null" )
    => /\ SendsOf(i) = {}
       /\ msgs[i].pc = "done"
       /\ msgs[i].signCalls = 0

C2_Witness ==
  /\ \E i \in 1..Len(msgs) : msgs[i].channel = "public" /\ msgs[i].result.kind = "null"
  /\ \E i \in 1..Len(msgs) : msgs[i].channel = "confidential" /\ msgs[i].result.kind = "null"

(***************************************************************************)
(* C3  A proposal that fails validation, in particular one with neither    *)
(* transactions nor partialTransactions, is not signed; a warning is       *)
(* logged, buildResponse yields nothing, no sendMessage call is made for   *)
(* the message, and the callback ends without an exception.                *)
(***************************************************************************)
C3_InvalidProposalDropped ==
  \A i \in 1..Len(msgs) :
    LET m == msgs[i]
    IN /\ ( /\ m.result.kind = "proposal"
            /\ ~m.result.value.transactions.def
            /\ ~m.result.value.partialTransactions.def )
          => m.validated = "failed"
       /\ m.validated = "failed"
          => /\ m.signCalls = 0
             /\ ~m.signed.some
             /\ "warn:invalid" \in m.logs
             /\ SendsOf(i) = {}
             /\ m.pc = "done"

C3_Witness ==
  \E i \in 1..Len(msgs) :
    /\ msgs[i].result = [kind |-> "proposal", value |-> NoListsProposal]
    /\ msgs[i].validated = "failed"

(***************************************************************************)
(* C4  Confidential channel: a message whose body has no signerPubKey gets *)
(* an error log, no handler invocation and no sendMessage call, and the    *)
(* type filter is not consulted, whether its type would pass or not.       *)
(***************************************************************************)
C4_MissingSignerPubKeyDropped ==
  \A i \in 1..Len(msgs) :
    ( msgs[i].channel = "confidential" /\ msgs[i].signerPubKey = NoString )
    => /\ "error:signerPubKey" \in msgs[i].logs
       /\ "warn:type" \notin msgs[i].logs
       /\ msgs[i].filter = "skipped"
       /\ msgs[i].handlerCalls = 0
       /\ msgs[i].signCalls = 0
       /\ SendsOf(i) = {}
       /\ msgs[i].pc = "done"

C4_Witness ==
  /\ OnlySwapAvailable
  /\ \E i \in 1..Len(msgs) :
       /\ msgs[i].channel = "confidential"
       /\ msgs[i].signerPubKey = NoString
       /\ msgs[i].type = Swap
  /\ \E i \in 1..Len(msgs) :
       /\ msgs[i].channel = "confidential"
       /\ msgs[i].signerPubKey = NoString
       /\ msgs[i].type = Yield

(***************************************************************************)
(* C5  With no encryption key configured, every subscription ever          *)
(* installed is the public one, no handshake acknowledgment is sent and no *)
(* sendMessage call carries a recipient key.                               *)
(***************************************************************************)
C5_EncryptionDisabledPublicOnly ==
  ( phase = "constructed" /\ ~TruthyChars(env.WAKU_ENCRYPTION_PRIVATE_KEY) )
  => /\ \A c \in 1..Len(clients) :
          \A k \in 1..Len(clients[c].subs) :
             /\ clients[c].subs[k].channel = "public"
             /\ clients[c].subs[k].topic = ""
             /\ ~clients[c].subs[k].encrypted
     /\ \A i \in 1..Len(msgs) : msgs[i].channel = "public"
     /\ \A k \in 1..Len(sends) : sends[k].kind = "response" /\ sends[k].recipient = NoString

C5_Witness ==
  /\ ~TruthyChars(env.WAKU_ENCRYPTION_PRIVATE_KEY)
  /\ initialized
  /\ Len(sends) > 0

(***************************************************************************)
(* C6  validateMessageType answers true for every message when the type    *)
(* list is empty; otherwise it answers true exactly when the type in upper *)
(* case is in the list: with the list {SWAP}, "swap" passes and "YIELD"    *)
(* does not.                                                               *)
(***************************************************************************)
C6_TypeFilter ==
  \A i \in 1..Len(msgs) :
    LET m == msgs[i]
    IN m.filter # "skipped"
       => /\ Len(config.AVAILABLE_TYPES) = 0 => m.filter = "true"
          /\ Len(config.AVAILABLE_TYPES) # 0
             => ( m.filter = "true"
                  <=> /\ m.type # Undefined
                      /\ \E j \in 1..Len(config.AVAILABLE_TYPES) :
                           /\ Len(config.AVAILABLE_TYPES[j]) = Len(m.type)
                           /\ \A n \in 1..Len(m.type) :
                                config.AVAILABLE_TYPES[j][n] = UpperChar(m.type[n]) )
          /\ (OnlySwapAvailable /\ m.type = Swap) => m.filter = "true"
          /\ (OnlySwapAvailable /\ m.type = Yield) => m.filter = "false"

C6_Witness ==
  /\ OnlySwapAvailable
  /\ \E i \in 1..Len(msgs) : msgs[i].type = Swap /\ msgs[i].filter = "true"
  /\ \E i \in 1..Len(msgs) : msgs[i].type = Yield /\ msgs[i].filter = "false"

(***************************************************************************)
(* C7  On each of the three channels a message whose type the filter       *)
(* rejects is logged and dropped: the handler is not invoked, nothing is   *)
(* signed and no sendMessage call is made; and whatever was handled,       *)
(* signed or sent had passed the filter first.                             *)
(***************************************************************************)
C7_FilterBeforeEverything ==
  \A i \in 1..Len(msgs) :
    LET m == msgs[i]
    IN /\ m.filter = "false"
          => /\ m.handlerCalls = 0
             /\ m.signCalls = 0
             /\ SendsOf(i) = {}
             /\ "warn:type" \in m.logs
             /\ m.pc = "done"
       /\ (m.handlerCalls > 0 \/ m.signCalls > 0 \/ SendsOf(i) # {}) => m.filter = "true"

C7_Witness ==
  /\ \E i \in 1..Len(msgs) : msgs[i].channel = "handshake" /\ msgs[i].filter = "false"
  /\ \E i \in 1..Len(msgs) :
       /\ msgs[i].channel = "confidential"
       /\ msgs[i].filter = "false"

(***************************************************************************)
(* C8  Confidential channel, success path: when the signature of a         *)
(* confidential message with signerPubKey settles with a response while    *)
(* the client's public key is available, that step makes one sendMessage   *)
(* call: to the message's replyTo, with the own public key as sender and   *)
(* the message's signerPubKey as recipient key.  No message gets a second  *)
(* call, and a public response never carries a recipient key.              *)
(***************************************************************************)
C8_ConfidentialStep ==
  \A i \in 1..Len(msgs) :
    LET m == msgs[i]
    IN ( /\ m.channel = "confidential"
         /\ m.signerPubKey # NoString
         /\ m.filter = "true"
         /\ m.pc = "sign"
         /\ msgs'[i].pc # "sign"
         /\ m.signed.some
         /\ clients[waku].publicKey # NoString )
       => /\ Len(sends') = Len(sends) + 1
          /\ SubSeq(sends', 1, Len(sends)) = sends
          /\ LET call == sends'[Len(sends')]
             IN /\ call.msg = i
                /\ call.kind = "response"
                /\ call.proposal = m.result.value
                /\ call.topic = m.replyTo
                /\ call.sender = clients[waku].publicKey
                /\ call.sender = PublicKeys[waku]
                /\ call.recipient = m.signerPubKey
                /\ call.recipient = PeerKeys[i]

C8_SendsWellAddressed ==
  /\ \A i \in 1..Len(msgs) : Cardinality(SendsOf(i)) <= 1
  /\ \A k \in 1..Len(sends) :
       msgs[sends[k].msg].channel = "public" => sends[k].recipient = NoString

C8_ConfidentialSuccess == [][C8_ConfidentialStep]_vars /\ []C8_SendsWellAddressed

C8_Witness ==
  \E i \in 1..Len(msgs) :
    /\ msgs[i].channel = "confidential"
    /\ msgs[i].pc = "done"
    /\ \E k \in SendsOf(i) : sends[k].recipient = PeerKeys[i]

(***************************************************************************)
(* C9  Handshake channel: when the signature over the empty payload        *)
(* settles successfully while the client's public key is available, that   *)
(* step makes one sendMessage call: the acknowledgment {signer, signature, *)
(* signerPubKey = own public key}, to the requester's replyTo, with the    *)
(* own public key as sender and no recipient key.  No handshake message    *)
(* gets a second call, and the handler is never invoked for one.           *)
(***************************************************************************)
C9_HandshakeStep ==
  \A i \in 1..Len(msgs) :
    LET m == msgs[i]
    IN ( /\ m.channel = "handshake"
         /\ m.filter = "true"
         /\ m.pc = "sign"
         /\ msgs'[i].pc # "sign"
         /\ m.signed.some
         /\ clients[waku].publicKey # NoString )
       => /\ Len(sends') = Len(sends) + 1
          /\ SubSeq(sends', 1, Len(sends)) = sends
          /\ LET call == sends'[Len(sends')]
             IN /\ call.msg = i
                /\ call.kind = "ack"
                /\ call.signer = m.signed.signer
                /\ call.signature = m.signed.signature
                /\ call.signed = <<>>
                /\ call.signerPubKey = PublicKeys[waku]
                /\ call.topic = m.replyTo
                /\ call.sender = PublicKeys[waku]
                /\ call.recipient = NoString

C9_HandshakeNeverHandled ==
  \A i \in 1..Len(msgs) :
    msgs[i].channel = "handshake"
    => /\ msgs[i].handlerCalls = 0
       /\ msgs[i].result.kind = "none"
       /\ Cardinality(SendsOf(i)) <= 1

C9_HandshakeAck == [][C9_HandshakeStep]_vars /\ []C9_HandshakeNeverHandled

C9_Witness ==
  \E i \in 1..Len(msgs) :
    /\ msgs[i].channel = "handshake"
    /\ msgs[i].pc = "done"
    /\ \E k \in SendsOf(i) : sends[k].kind = "ack" /\ sends[k].signerPubKey = PublicKeys[1]

(***************************************************************************)
(* C10  initialize is idempotent: once initialized is true, no step starts *)
(* another transport client or installs another subscription, so each      *)
(* channel has at most one subscription per router instance.              *)
(***************************************************************************)
C10_NoFurtherStart ==
  initialized => (starts' = starts /\ clients' = [c \in 1..Len(clients) |-> clients'[c]]
                  /\ \A c \in 1..Len(clients) : clients'[c].subs = clients[c].subs)

C10_OneSubscriptionPerChannel ==
  \A ch \in {"public", "handshake", "confidential"} :
    Cardinality(ActiveSubscriptions(ch)) <= 1

C10_InitializeIdempotent ==
  [][C10_NoFurtherStart]_vars /\ []C10_OneSubscriptionPerChannel

(***************************************************************************)
(* C11  An initialize call that fails (at the client start, at setLogger   *)
(* or at a subscription) ends by throwing to its caller, and initialized   *)
(* is false when it has ended.                                             *)
(***************************************************************************)
C11_InitializeEnds ==
  initPending' = initPending - 1
  => /\ lastCall' \in {"initialize:ok", "initialize:threw"}
     /\ lastCall' = "initialize:ok" => initialized'
     /\ lastCall' = "initialize:threw" => ~initialized'

C11_InitFailurePropagates == [][C11_InitializeEnds]_vars

(***************************************************************************)
(* C12  When initialize fails, no partial router is left running: no       *)
(* subscription installed by the failed attempt is active afterwards, and  *)
(* no inbound message invokes the handler or causes a send through it.     *)
(***************************************************************************)
\* client c was started by an initialize call that went on to fail
StartedByFailedAttempt(c) ==
  Len(clients[c].subs) < (IF encryptionEnabled THEN 3 ELSE 1)

C12_NoPartialRouter ==
  /\ \A c \in 1..Len(clients) :
       (StartedByFailedAttempt(c) /\ clients[c].running) => clients[c].subs = <<>>
  /\ \A i \in 1..Len(msgs) :
       StartedByFailedAttempt(msgs[i].client)
       => msgs[i].handlerCalls = 0 /\ SendsOf(i) = {}

(***************************************************************************)
(* C13  The constructor throws, before any client is started and any       *)
(* subscription installed, when the private key is missing or when an      *)
(* encryption key is set that differs from it.  Hence on a constructed     *)
(* router the private key is present, encryptionEnabled is true exactly    *)
(* when an encryption key was configured, and then the two keys are equal. *)
(***************************************************************************)
PrivateKeyMissing == env.SOLVER_PRIVATE_KEY \in {Undefined, <<>>}

EncryptionKeyConfigured == env.WAKU_ENCRYPTION_PRIVATE_KEY \notin {Undefined, <<>>}

C13_ConstructorChecks ==
  /\ ( /\ phase # "new"
       /\ \/ PrivateKeyMissing
          \/ EncryptionKeyConfigured
             /\ env.WAKU_ENCRYPTION_PRIVATE_KEY # env.SOLVER_PRIVATE_KEY )
     => phase = "failed"
  /\ phase = "failed"
     => /\ starts = 0 /\ clients = <<>> /\ waku = 0 /\ msgs = <<>> /\ ~initialized
        /\ PrivateKeyMissing \/ EncryptionKeyConfigured
  /\ phase = "constructed"
     => /\ config.PRIVATE_KEY = env.SOLVER_PRIVATE_KEY
        /\ ~PrivateKeyMissing
        /\ encryptionEnabled <=> EncryptionKeyConfigured
        /\ encryptionEnabled => config.WAKU_ENCRYPTION_PRIVATE_KEY = config.PRIVATE_KEY

C13_Witness ==
  /\ phase = "failed"
  /\ ~PrivateKeyMissing
  /\ EncryptionKeyConfigured
  /\ env.WAKU_ENCRYPTION_PRIVATE_KEY # env.SOLVER_PRIVATE_KEY

(***************************************************************************)
(* C14  No per-message failure leaves the message's callback: whatever     *)
(* fails (the type filter on a body without type, the handler, validation, *)
(* signing, the send), the callback resolves, the failure is logged, and   *)
(* initialized and the subscriptions stay as they are.                     *)
(***************************************************************************)
C14_FailuresLogged ==
  \A i \in 1..Len(msgs) :
    LET m == msgs[i]
    IN /\ m.result.kind = "throw" => "error:build" \in m.logs
       /\ m.validated = "failed" => "warn:invalid" \in m.logs
       /\ (PastSigning(m) /\ ~m.signed.some)
          => m.logs \cap {"console:signing", "error:handshake"} # {}

C14_CallbackNeverRejects ==
  /\ \A i \in 1..Len(msgs) : msgs[i].pc # "rejected"
  /\ C14_FailuresLogged

C14_RouterUntouched ==
  (msgs' # msgs \/ sends' # sends)
  => /\ initialized' = initialized
     /\ clients' = clients
     /\ waku' = waku

C14_PerMessageIsolation == [][C14_RouterUntouched]_vars /\ []C14_CallbackNeverRejects

(***************************************************************************)
(* C15  When the handler throws or rejects, buildResponse catches the      *)
(* exception, logs it with the message body and returns null: nothing is   *)
(* validated or signed, nothing is sent for the message, and the callback  *)
(* resolves.                                                               *)
(***************************************************************************)
C15_HandlerThrowCaught ==
  \A i \in 1..Len(msgs) :
    LET m == msgs[i]
    IN m.result.kind = "throw"
       => /\ m.pc = "done"
          /\ m.validated = "none"
          /\ m.signCalls = 0
          /\ ~m.signed.some
          /\ SendsOf(i) = {}
          /\ {"error:build", "console:build", "info:noResponse"} \subseteq m.logs
          /\ "warn:invalid" \notin m.logs

C15_Witness ==
  \E i \in 1..Len(msgs) :
    /\ msgs[i].channel = "confidential"
    /\ msgs[i].result.kind = "throw"
    /\ msgs[i].pc = "done"

(***************************************************************************)
(* C16  The handler is invoked exactly once for an admitted message (a     *)
(* public message that passes the type filter, a confidential message      *)
(* with signerPubKey that passes it), not at all for any other, and no     *)
(* failure in handling, validating, signing or sending leads to a second   *)
(* invocation, a second signature or a second send for the same message.   *)
(***************************************************************************)
Admitted(m) ==
  /\ m.channel \in {"public", "confidential"}
  /\ m.channel = "confidential" => m.signerPubKey \notin {NoString, ""}
  /\ \/ Len(config.AVAILABLE_TYPES) = 0
     \/ /\ m.type # Undefined
        /\ \E j \in 1..Len(config.AVAILABLE_TYPES) :
             config.AVAILABLE_TYPES[j] = [n \in 1..Len(m.type) |-> UpperChar(m.type[n])]

ResponseProduced(m) ==
  /\ m.channel \in {"public", "confidential"}
  /\ m.signed.some
  /\ PastSigning(m)

C17_EveryResponseSentOnce ==
  \A i \in 1..Len(msgs) :
    ResponseProduced(msgs[i]) => Cardinality(SendsOf(i)) = 1

(***************************************************************************)
(* C17  (amended) No MessageResponse is sent twice.  A public response is  *)
(* sent once when the message's replyTo is non-empty and dropped when it   *)
(* is empty; a confidential response is sent once when the client's own    *)
(* public key is available and dropped, with an error logged, when not.    *)
(***************************************************************************)
C17_ResponseSentOnceOrDropped ==
  \A i \in 1..Len(msgs) :
    LET m == msgs[i]
    IN ResponseProduced(m)
       => /\ Cardinality(SendsOf(i)) <= 1
          /\ m.channel = "public"
             => (SendsOf(i) # {} <=> m.replyTo \notin {NoString, ""})
          /\ m.channel = "confidential"
             => (SendsOf(i) # {} <=> "error:noPublicKey" \notin m.logs)
          /\ \A k \in SendsOf(i) : sends[k].proposal = m.result.value

C17_Witness ==
  /\ \E i \in 1..Len(msgs) :
       /\ msgs[i].channel = "public"
       /\ ResponseProduced(msgs[i])
       /\ msgs[i].replyTo = ""
       /\ SendsOf(i) = {}
  /\ \E i \in 1..Len(msgs) :
       /\ msgs[i].channel = "public"
       /\ ResponseProduced(msgs[i])
       /\ Cardinality(SendsOf(i)) = 1

(***************************************************************************)
(* C18  signProposal never raises.  For a null proposal it returns null    *)
(* without calling the signer.  When signPayload fails (a malformed key, a *)
(* payload that cannot be serialized) it logs and returns null.  Otherwise *)
(* it returns {proposal, signature, signer}, the proposal being its        *)
(* argument.                                                               *)
(***************************************************************************)
HexPrefixed(k) == Len(k) >= 2 /\ k[1] = "0" /\ k[2] = "x"

SigningFails(value, k) ==
  \/ \E f \in {"transactions", "partialTransactions"} :
       \E i \in 1..Len(value[f].items) : value[f].items[i].callData = "bigint"
  \/ HexPrefixed(k) /\ k # EvmKey
  \/ ~HexPrefixed(k) /\ k # SolanaKey

C18_SignProposalNeverRaises ==
  applied.fn = "signProposal"
  => /\ applied.returned \in {"null", "response"}
     /\ applied.arg.kind = "null"
        => /\ applied.returned = "null"
           /\ applied.signerCalls = 0
     /\ (applied.arg.kind = "proposal" /\ SigningFails(applied.arg.value, applied.key))
        => /\ applied.returned = "null"
           /\ "console:signing" \in applied.logs
     /\ (applied.arg.kind = "proposal" /\ ~SigningFails(applied.arg.value, applied.key))
        => /\ applied.returned = "response"
           /\ applied.signed.some
           /\ applied.signed.proposal = applied.arg.value
           /\ applied.signed.signer # <<>>
           /\ applied.signed.signature # <<>>

C18_Witness ==
  /\ applied.fn = "signProposal"
  /\ applied.arg.kind = "proposal"
  /\ applied.key = EvmKey
  /\ \E i \in 1..Len(applied.arg.value.partialTransactions.items) :
       applied.arg.value.partialTransactions.items[i].callData = "bigint"
  /\ applied.returned = "null"

(***************************************************************************)
(* C19  signPayload chooses its signer by the key's prefix alone: whenever *)
(* it reaches a signer, that is the EVM signer if the key begins with "0x" *)
(* and the Solana signer otherwise, whatever else the key or the payload   *)
(* is; it reaches one for every payload that can be serialized; and what   *)
(* is signed is the JSON stringification of the payload.                   *)
(***************************************************************************)
C19_SignerDispatch ==
  applied.fn = "signPayload"
  => /\ applied.path # "none"
        => applied.path = (IF HexPrefixed(applied.key) THEN "evm" ELSE "solana")
     /\ applied.path = "none"
        <=> \E i \in 1..Len(applied.arg.value.partialTransactions.items) :
              applied.arg.value.partialTransactions.items[i].callData = "bigint"
     /\ applied.returned = "signature"
        => /\ applied.signed.message = JSONstringify(applied.arg.value)
           /\ applied.signed.message # <<>>
              \/ applied.arg.value = EmptyObject

C19_Witness ==
  /\ applied.fn = "signPayload"
  /\ applied.key = MalformedHexKey
  /\ applied.path = "evm"
  /\ applied.returned = "threw"

(***************************************************************************)
(* C20  (as stated) The schema accepts a value if and only if titles and   *)
(* calls are present and at least one of transactions and                  *)
(* partialTransactions is a non-empty sequence.                            *)
(***************************************************************************)
NonEmptyList(field) == field.def /\ Len(field.items) > 0

C20_SchemaAcceptsIff ==
  applied.fn = "parse"
  => ( applied.returned = "ok"
       <=> /\ applied.arg.value.titles.def
           /\ applied.arg.value.calls.def
           /\ \/ NonEmptyList(applied.arg.value.transactions)
              \/ NonEmptyList(applied.arg.value.partialTransactions) )

(***************************************************************************)
(* C20  (amended) The schema accepts a value if and only if description,   *)
(* titles and calls are present, every listed transaction and partial      *)
(* transaction has the fields its own schema requires, and at least one of *)
(* the two lists is a non-empty sequence.  It rejects every value in which *)
(* both lists are absent or empty.                                         *)
(***************************************************************************)
C20_SchemaAcceptsIffWellFormed ==
  applied.fn = "parse"
  => LET p == applied.arg.value
     IN /\ applied.returned \in {"ok", "threw"}
        /\ applied.returned = "ok"
           <=> /\ p.description.def
               /\ p.titles.def
               /\ p.calls.def
               /\ \A i \in 1..Len(p.transactions.items) :
                    /\ p.transactions.items[i].chainId = "ok"
                    /\ p.transactions.items[i].to = "ok"
                    /\ p.transactions.items[i].value = "ok"
                    /\ p.transactions.items[i].data = "ok"
               /\ \A i \in 1..Len(p.partialTransactions.items) :
                    /\ p.partialTransactions.items[i].chainId = "ok"
                    /\ p.partialTransactions.items[i].to = "ok"
                    /\ p.partialTransactions.items[i].value \in {"ok", "undefined"}
                    /\ p.partialTransactions.items[i].data \in {"ok", "undefined"}
               /\ \/ NonEmptyList(p.transactions)
                  \/ NonEmptyList(p.partialTransactions)
        /\ (~NonEmptyList(p.transactions) /\ ~NonEmptyList(p.partialTransactions))
           => applied.returned = "threw"

C20_Witness ==
  /\ applied.fn = "parse"
  /\ applied.returned = "threw"
  /\ ~applied.arg.value.description.def
  /\ applied.arg.value.titles.def
  /\ applied.arg.value.calls.def
  /\ applied.arg.value.transactions = Def(<<GoodTx>>)

(***************************************************************************)
(* C22  Stage ordering of one message: whatever was sent for a message had *)
(* been signed with success; on the public and confidential channels a     *)
(* signature is asked for only after the proposal passed validation,       *)
(* validation happens only on a proposal the handler returned, and the     *)
(* handler is invoked only after the type filter accepted the message (on  *)
(* the handshake channel the signature follows the filter directly); a     *)
(* stage that fails or yields nothing is followed by no later stage of     *)
(* that message.                                                           *)
(***************************************************************************)
C22_StageOrdering ==
  \A i \in 1..Len(msgs) :
    LET m == msgs[i]
    IN /\ SendsOf(i) # {} => m.signCalls = 1 /\ m.signed.some
       /\ m.pc = "send" => SendsOf(i) # {}
       /\ m.signCalls > 0
          => IF m.channel = "handshake"
             THEN m.filter = "true" /\ m.handlerCalls = 0
             ELSE m.validated = "ok"
       /\ m.validated # "none" => m.result.kind = "proposal"
       /\ m.result.kind # "none" => m.handlerCalls = 1 /\ m.pc # "handler"
       /\ m.handlerCalls > 0 => m.filter = "true"
       /\ m.filter # "true"
          => m.handlerCalls = 0 /\ m.signCalls = 0 /\ SendsOf(i) = {}
       /\ m.result.kind \in {"null", "throw"}
          => m.validated = "none" /\ m.signCalls = 0 /\ SendsOf(i) = {}
       /\ m.validated = "failed" => m.signCalls = 0 /\ SendsOf(i) = {}
       /\ (m.signCalls = 1 /\ ~m.signed.some) => SendsOf(i) = {}

C22_Witness ==
  /\ \E i \in 1..Len(msgs) :
       /\ msgs[i].channel = "public"
       /\ msgs[i].filter = "true" /\ msgs[i].handlerCalls = 1
       /\ msgs[i].result.kind = "proposal" /\ msgs[i].validated = "ok"
       /\ msgs[i].signed.some /\ SendsOf(i) # {} /\ msgs[i].pc = "done"
  /\ \E i \in 1..Len(msgs) :
       /\ msgs[i].validated = "failed" /\ msgs[i].pc = "done" /\ SendsOf(i) = {}

\* a stop() call has returned on this router and no call is in progress
StopCompleted ==
  /\ stopPending = 0
  /\ initPending = 0
  /\ ~initialized
  /\ \E c \in 1..Len(clients) : ~clients[c].running

(***************************************************************************)
(* C23  Stopping is one-way: once stop() has completed on a router (its    *)
(* client stopped, initialized false) and no call is in progress, no step  *)
(* goes on to start a transport client, adds a client or a subscription,   *)
(* or sets initialized again.                                              *)
(***************************************************************************)
C23_StoppedStep ==
  StopCompleted
  => /\ starts' = starts
     /\ initPending' = 0
     /\ Len(clients') = Len(clients)
     /\ \A c \in 1..Len(clients) : clients'[c].subs = clients[c].subs
     /\ ~initialized'

C23_StopIsOneWay == [][C23_StoppedStep]_vars

\* the subscriptions initialize() has to install on a client whose own
\* public key is publicKey, in the order of its subscribe calls
RequiredSubscriptions(publicKey) ==
  IF encryptionEnabled
  THEN <<PublicSubscription, HandshakeSubscription, ConfidentialSubscription(publicKey)>>
  ELSE <<PublicSubscription>>

(***************************************************************************)
(* C24  initialized is true only if a transport client was started and     *)
(* carries every required subscription, installed in the order public,     *)
(* handshake, confidential: the public one on the empty topic and, with    *)
(* encryption enabled, the handshake one on "handshake" and the            *)
(* confidential one on the client's own public key, which is defined.      *)
(***************************************************************************)
C24_InitializedMeansSubscribed ==
  initialized
  => \E c \in 1..Len(clients) :
       /\ clients[c].subs = RequiredSubscriptions(PublicKeys[c])
       /\ encryptionEnabled => clients[c].subs[3].topic # NoString

\* the callback of m is suspended at an await
InFlight(m) == m.pc \in {"handler", "sign", "send"}

(***************************************************************************)
(* C25  stop() neither waits for nor cancels the messages in flight: a     *)
(* step of stop() leaves every message and every send as it was; stop()    *)
(* can be called and can return whatever the callbacks in flight are; a    *)
(* suspended callback can still resume once the client is stopped, and     *)
(* when its signature has settled with the client stopped it goes on to    *)
(* its sendMessage call.                                                   *)
(***************************************************************************)
C25_StopStep ==
  /\ (stopPending' # stopPending \/ (initialized /\ ~initialized'))
     => msgs' = msgs /\ sends' = sends
  /\ \A i \in 1..Len(msgs) :
       ( /\ msgs[i].pc = "sign"
         /\ msgs'[i] # msgs[i]
         /\ waku > 0 /\ ~clients[waku].running
         /\ WillSend(msgs[i]) )
       => /\ msgs'[i].pc = "send"
          /\ Len(sends') = Len(sends) + 1
          /\ sends'[Len(sends')].msg = i
          /\ sends'[Len(sends')].client = waku

C25_StopIndependent ==
  /\ stopPending > 0 => ENABLED StopReturn
  /\ (phase = "constructed" /\ budget.stop /\ waku > 0 /\ clients[waku].running)
     => ENABLED StopCall
  /\ \A i \in 1..Len(msgs) :
       /\ msgs[i].pc = "handler" => ENABLED HandlerReturns
       /\ msgs[i].pc = "sign" => ENABLED SignReturns
       /\ msgs[i].pc = "send" => ENABLED SendReturns

C25_StopIgnoresInFlight == [][C25_StopStep]_vars /\ []C25_StopIndependent

\* stop() has returned, the client is stopped, and a callback delivered by
\* that client is still suspended at its handler
C25_Witness ==
  /\ lastCall = "stop:ok"
  /\ StopCompleted
  /\ \E i \in 1..Len(msgs) :
       /\ msgs[i].pc = "handler"
       /\ ~clients[msgs[i].client].running

(***************************************************************************)
(* C26  Whatever the interleaving of the messages in flight, every send    *)
(* is addressed to the replyTo of its own message, a response carries the  *)
(* proposal the handler returned for that message and, on the              *)
(* confidential channel, is encrypted for that message's signerPubKey;     *)
(* and a step that advances one message leaves every other message as it   *)
(* was and removes or changes no send already made.                        *)
(***************************************************************************)
C26_OwnResponse ==
  \A k \in 1..Len(sends) :
    LET m == msgs[sends[k].msg]
    IN /\ sends[k].topic = m.replyTo
       /\ sends[k].kind = "response"
          => /\ m.result.kind = "proposal"
             /\ sends[k].proposal = m.result.value
       /\ m.channel = "confidential" => sends[k].recipient = m.signerPubKey
       /\ m.channel # "confidential" => sends[k].recipient = NoString

C26_OneMessageStep ==
  /\ \A i, j \in 1..Len(msgs) :
       (i # j /\ msgs'[i] # msgs[i]) => msgs'[j] = msgs[j]
  /\ Len(sends') >= Len(sends)
  /\ \A k \in 1..Len(sends) : sends'[k] = sends[k]
  /\ Len(msgs') > Len(msgs) => \A i \in 1..Len(msgs) : msgs'[i] = msgs[i]

C26_Interleaving == [][C26_OneMessageStep]_vars /\ []C26_OwnResponse

\* two responses sent in the opposite order of arrival, each with its own
\* proposal and replyTo
C26_Witness ==
  /\ Len(msgs) >= 2 /\ Len(sends) >= 2
  /\ sends[1].msg = 2 /\ sends[2].msg = 1
  /\ sends[1].kind = "response" /\ sends[2].kind = "response"
  /\ sends[1].proposal # sends[2].proposal
  /\ sends[1].topic # sends[2].topic
  /\ msgs[1].channel # msgs[2].channel

(***************************************************************************)
(* C28  When the transport's own public key is unavailable at the moment   *)
(* the handshake or the confidential callback needs it, the callback logs  *)
(* an error and returns without a sendMessage call: no acknowledgment on   *)
(* the handshake channel, and on the confidential channel the response     *)
(* buildResponse has built is discarded.                                   *)
(***************************************************************************)
C28_NoKeyStep ==
  \A i \in 1..Len(msgs) :
    ( /\ msgs[i].pc = "sign"
      /\ msgs'[i] # msgs[i]
      /\ msgs[i].channel \in {"handshake", "confidential"}
      /\ msgs[i].signed.some
      /\ ~Truthy(clients[waku].publicKey) )
    => /\ sends' = sends
       /\ msgs'[i].pc = "done"
       /\ "error:noPublicKey" \in msgs'[i].logs

C28_NoKeyNoSend ==
  \A i \in 1..Len(msgs) :
    "error:noPublicKey" \in msgs[i].logs
    => /\ SendsOf(i) = {}
       /\ msgs[i].pc = "done"
       /\ msgs[i].channel \in {"handshake", "confidential"}
       /\ msgs[i].signed.some
       /\ msgs[i].channel = "confidential"
          => msgs[i].validated = "ok" /\ msgs[i].signed.proposal = msgs[i].result.value

C28_KeyUnavailableDrops == [][C28_NoKeyStep]_vars /\ []C28_NoKeyNoSend

C28_Witness ==
  /\ \E i \in 1..Len(msgs) :
       /\ msgs[i].channel = "handshake"
       /\ "error:noPublicKey" \in msgs[i].logs /\ SendsOf(i) = {}
  /\ \E i \in 1..Len(msgs) :
       /\ msgs[i].channel = "confidential"
       /\ msgs[i].signed.some
       /\ "error:noPublicKey" \in msgs[i].logs /\ SendsOf(i) = {}

\* the identity the signers derive from a well-formed key k
SignerOf(k) == IF startsWith(k, <<"0", "x">>) THEN <<"address">> \o k ELSE <<"base58">> \o k

BadMessage(m) ==
  \/ m.result.kind \in {"null", "throw"}
  \/ m.validated = "failed"
  \/ m.signCalls = 1 /\ ~m.signed.some

\* message i has a valid proposal that was signed, and its callback will send
\* once it resumes
ResponsePending(i) ==
  IF i <= Len(msgs)
  THEN /\ msgs[i].channel \in {"public", "confidential"}
       /\ msgs[i].pc = "sign"
       /\ msgs[i].validated = "ok"
       /\ WillSend(msgs[i])
  ELSE FALSE

\* the callback of message i is at one of the positions pcs
CallbackAt(i, pcs) == IF i <= Len(msgs) THEN msgs[i].pc \in pcs ELSE FALSE

(***************************************************************************)
(* C27  A bad message never blocks the others: whatever became of the      *)
(* other messages (handler threw, returned null or an invalid proposal,    *)
(* signing failed, or the handler never completes), a message whose        *)
(* handler returned a valid proposal that was signed eventually has its    *)
(* response sent, and every callback that is past its handler eventually   *)
(* ends.                                                                   *)
(***************************************************************************)
C27_BadMessageNeverBlocks ==
  \A i \in 1..LiveBudget.msgs :
    /\ ResponsePending(i) ~> (SendsOf(i) # {})
    /\ CallbackAt(i, {"sign", "send"}) ~> CallbackAt(i, {"done", "rejected"})

\* the first message was bad, the second one got its response sent
C27_Witness ==
  /\ Len(msgs) = 2
  /\ BadMessage(msgs[1])
  /\ msgs[1].pc = "done"
  /\ msgs[2].validated = "ok"
  /\ SendsOf(2) # {}
  /\ msgs[2].pc = "done"

(***************************************************************************)
(* C21  Every SolverSDK.start(handler) call calls WakuTransport.start once *)
(* and with that handler; it returns a handle only when the transport's    *)
(* start has completed, and throws only when it has failed; a stop() call  *)
(* on the handle calls the transport's stop once and changes nothing else. *)
(***************************************************************************)
C21_FacadeCalls ==
  \A c \in 1..Len(sdk) :
    /\ sdk[c].transportStarts = <<sdk[c].handler>>
    /\ sdk[c].returned = "handle" => sdk[c].transport = "started"
    /\ sdk[c].returned = "threw" => sdk[c].transport = "failed"
    /\ sdk[c].transportStops = sdk[c].stops
    /\ sdk[c].returned # "handle" => sdk[c].stops = 0

C21_StopStep ==
  \A c \in 1..Len(sdk) :
    sdk'[c].stops # sdk[c].stops
    => /\ sdk'[c] = [sdk[c] EXCEPT !.stops = @ + 1, !.transportStops = @ + 1,
                                   !.stopsPending = @ + 1]
       /\ \A d \in 1..Len(sdk) : d # c => sdk'[d] = sdk[d]
       /\ Len(sdk') = Len(sdk)

C21_Facade == [][C21_StopStep]_vars /\ []C21_FacadeCalls

\* two handles from two handlers, stop() called twice on the first
C21_Witness ==
  /\ Len(sdk) = 2
  /\ sdk[1].handler # sdk[2].handler
  /\ sdk[1].returned = "handle" /\ sdk[2].returned = "handle"
  /\ sdk[1].stops = 2 /\ sdk[1].transportStops = 2 /\ sdk[1].stopsPending = 0
  /\ sdk[2].stops = 0

=============================================================================
